---------------------------- MODULE Spec2Model ----------------------------
(***************************************************************************)
(* A model of kbinani/noteshrink (src/noteshrink.go): the Shrink pipeline  *)
(* load -> samplePixels -> createPalette (findBackgroundColor,             *)
(* createForegroundMask, kMeans) -> saturatePalette -> applyPalette ->     *)
(* image.NewRGBA/SetRGBA, one action per stage, and the pure functions the *)
(* stages call as operators.                                               *)
(*                                                                         *)
(* float32 values are modelled as exact rationals [n, d] in lowest terms,  *)
(* with the IEEE specials NaN ([0,0]) and +Inf/-Inf ([1,0], [-1,0]) that a *)
(* division by zero produces.  The one place where the float32 rounding of *)
(* a product is converted to an int (samplePixels) models the rounding to  *)
(* a 24-bit significand explicitly.                                        *)
(***************************************************************************)
EXTENDS Integers, Sequences, FiniteSets, TLC

VARIABLES
    pc,          \* the stage of Shrink that runs next
    nanInt,      \* what int(NaN) yields on this build (implementation-dependent)
    input,       \* Shrink's argument input image.Image
    option,      \* Shrink's argument option (*Option)
    img,         \* []rgbf returned by load
    rect,        \* image.Rectangle returned by load
    shuffled,    \* samplePixels' shuffled copy
    samples,     \* result of samplePixels
    origBgColor, \* findBackgroundColor's result (createPalette's bgColor)
    data,        \* createPalette's foreground data handed to kMeans
    means,       \* kMeans' means
    clusters,    \* kMeans' clusters
    itr,         \* kMeans' loop counter
    changes,     \* kMeans' changes of the last iteration (-1 before the first)
    palette,     \* Shrink's palette
    bgColor,     \* Shrink's bgColor
    result,      \* applyPalette's result
    shrinked     \* the *image.RGBA Shrink returns

vars == <<pc, nanInt, input, option, img, rect, shuffled, samples, origBgColor,
          data, means, clusters, itr, changes, palette, bgColor, result, shrinked>>

---------------------------------------------------------------------------
(* float32 arithmetic, as exact rationals with NaN and infinities *)

RECURSIVE GCD(_, _)
GCD(a, b) == IF b = 0 THEN a ELSE GCD(b, a % b)

Abs(n) == IF n < 0 THEN -n ELSE n

NaN == [n |-> 0, d |-> 0]

\* The rational n/d (d > 0) in lowest terms.
Rat(n, d) ==
    LET g == GCD(Abs(n), d)
    IN  [n |-> n \div g, d |-> d \div g]

Flt(i) == [n |-> i, d |-> 1]

IsNaN(a) == a.d = 0 /\ a.n = 0
IsInf(a) == a.d = 0 /\ a.n # 0
IsFinite(a) == a.d > 0
Sign(a) == IF a.n > 0 THEN 1 ELSE IF a.n < 0 THEN -1 ELSE 0

FNeg(a) == [n |-> -a.n, d |-> a.d]

FAdd(a, b) ==
    IF IsNaN(a) \/ IsNaN(b) THEN NaN
    ELSE IF IsInf(a) /\ IsInf(b) THEN (IF a.n = b.n THEN a ELSE NaN)
    ELSE IF IsInf(a) THEN a
    ELSE IF IsInf(b) THEN b
    ELSE Rat(a.n * b.d + b.n * a.d, a.d * b.d)

FSub(a, b) == FAdd(a, FNeg(b))

FMul(a, b) ==
    IF IsNaN(a) \/ IsNaN(b) THEN NaN
    ELSE IF IsInf(a) \/ IsInf(b)
         THEN (IF Sign(a) * Sign(b) = 0 THEN NaN
               ELSE [n |-> Sign(a) * Sign(b), d |-> 0])
    ELSE Rat(a.n * b.n, a.d * b.d)

\* IEEE division: 0/0 is NaN, x/0 is an infinity of x's sign.
FDiv(a, b) ==
    IF IsNaN(a) \/ IsNaN(b) THEN NaN
    ELSE IF IsInf(a) THEN (IF IsInf(b) THEN NaN
                           ELSE [n |-> Sign(a) * (IF b.n < 0 THEN -1 ELSE 1), d |-> 0])
    ELSE IF IsInf(b) THEN Flt(0)
    ELSE IF b.n = 0 THEN (IF a.n = 0 THEN NaN ELSE [n |-> Sign(a), d |-> 0])
    ELSE Rat(a.n * b.d * Sign(b), a.d * Abs(b.n))

\* Comparisons: every comparison with a NaN is false.
FLt(a, b) ==
    IF IsNaN(a) \/ IsNaN(b) THEN FALSE
    ELSE IF IsInf(a) \/ IsInf(b)
         THEN (IF IsInf(a) /\ IsInf(b) THEN a.n < b.n
               ELSE IF IsInf(a) THEN a.n < 0 ELSE b.n > 0)
    ELSE a.n * b.d < b.n * a.d

FGt(a, b) == FLt(b, a)
FEq(a, b) == ~IsNaN(a) /\ ~IsNaN(b) /\ a = b
FGe(a, b) == FGt(a, b) \/ FEq(a, b)

\* int(v) of a float32: truncation toward zero; of a NaN or an infinity the
\* result is implementation-dependent (nanInt).
FInt(a) ==
    IF ~IsFinite(a) THEN nanInt
    ELSE IF a.n >= 0 THEN a.n \div a.d ELSE -((-a.n) \div a.d)

\* uint8(v) of a float32, as Shrink converts a result channel.
FUint8(a) == FInt(a) % 256

max(a, b) == IF FGt(a, b) THEN a ELSE b

min(a, b) == IF FGt(a, b) THEN b ELSE a

abs(a) == IF FLt(a, Flt(0)) THEN FNeg(a) ELSE a

round(v) == Flt(FInt(FAdd(v, Rat(1, 2))))

---------------------------------------------------------------------------
(* rgbf and the colour space converter *)

RGB(r, g, b) == <<Flt(r), Flt(g), Flt(b)>>

add(a, b) == [i \in 1..3 |-> FAdd(a[i], b[i])]

mul(a, scalar) == [i \in 1..3 |-> FMul(a[i], scalar)]

squareDistance(a, b) ==
    LET t(i) == FMul(FSub(a[i], b[i]), FSub(a[i], b[i]))
    IN  FAdd(FAdd(FAdd(Flt(0), t(1)), t(2)), t(3))

rgbToHsv(p) ==
    LET r == FDiv(p[1], Flt(255))
        g == FDiv(p[2], Flt(255))
        b == FDiv(p[3], Flt(255))
        mx == max(max(r, g), b)
        mn == min(min(r, g), b)
        h0 == FSub(mx, mn)
        h1 == IF FGt(h0, Flt(0))
              THEN IF FEq(mx, r)
                   THEN LET q == FDiv(FSub(g, b), h0)
                        IN  IF FLt(q, Flt(0)) THEN FAdd(q, Flt(6)) ELSE q
                   ELSE IF FEq(mx, g)
                        THEN FAdd(Flt(2), FDiv(FSub(b, r), h0))
                        ELSE FAdd(Flt(4), FDiv(FSub(r, g), h0))
              ELSE h0
        s0 == FSub(mx, mn)
    IN  [h |-> FDiv(h1, Flt(6)),
         s |-> IF FGt(mx, Flt(0)) THEN FDiv(s0, mx) ELSE s0,
         v |-> mx]

hsvToRgb(h, s, v) ==
    LET h6 == FMul(h, Flt(6))
        i == FInt(h6)
        f == FSub(h6, Flt(i))
        one == Flt(1)
        sf == FSub(one, FMul(s, f))                \* 1 - s*f
        s1f == FSub(one, FMul(s, FSub(one, f)))    \* 1 - s*(1-f)
        s1 == FSub(one, s)                         \* 1 - s
        rgb == IF FGt(s, Flt(0))
               THEN CASE i = 0 -> <<v, FMul(v, s1f), FMul(v, s1)>>
                      [] i = 1 -> <<FMul(v, sf), v, FMul(v, s1)>>
                      [] i = 2 -> <<FMul(v, s1), v, FMul(v, s1f)>>
                      [] i = 3 -> <<FMul(v, s1), FMul(v, sf), v>>
                      [] i = 4 -> <<FMul(v, s1f), FMul(v, s1), v>>
                      [] i = 5 -> <<v, FMul(v, s1), FMul(v, sf)>>
                      [] OTHER -> <<v, v, v>>
               ELSE <<v, v, v>>
    IN  mul(rgb, Flt(255))

---------------------------------------------------------------------------
(* Option *)

\* float32(0.05), exactly: 13421773 / 2^28.
SampleFractionDefault == Rat(13421773, 268435456)

\* float32(0.25) is exact; float32(0.20) is taken as 1/5.
MakeDefaultOption ==
    [SampleFraction |-> SampleFractionDefault,
     BrightnessThreshold |-> Rat(1, 4),
     SaturationThreshold |-> Rat(1, 5),
     NumColors |-> 8,
     KmeansMaxIter |-> 40,
     Saturate |-> TRUE,
     WhiteBackground |-> TRUE]

\* A nil *Option.
NilOption == [nil |-> TRUE]

---------------------------------------------------------------------------
(* Background detector *)

\* One channel of quantize: (uint8(c) >> shift) << shift + halfbin, in uint8.
quantizeChannel(c, bitsPerChannel) ==
    LET shift == 8 - bitsPerChannel
        halfbin == ((2 ^ shift) \div 2) % 256
        shifted == ((FUint8(c) \div (2 ^ shift)) * (2 ^ shift)) % 256
    IN  Flt((shifted + halfbin) % 256)

quantize(image, bitsPerChannel) ==
    [i \in 1..Len(image) |->
        [j \in 1..3 |-> quantizeChannel(image[i][j], bitsPerChannel)]]

\* The loop of findBackgroundColor from index i (1-based; the code's i - 1) on.
\* count is the map, a function on the quantized colours with 0 for a missing key.
RECURSIVE findBackgroundLoop(_, _, _, _, _)
findBackgroundLoop(quantized, i, count, maxcount, maxvalue) ==
    IF i > Len(quantized) THEN maxvalue
    ELSE LET v == quantized[i]
             c == count[v] + 1
         IN  findBackgroundLoop(quantized, i + 1, [count EXCEPT ![v] = c],
                                IF c > maxcount THEN c ELSE maxcount,
                                IF c > maxcount THEN v ELSE maxvalue)

\* Defined for a non-empty image only: quantized[0] panics on an empty one.
findBackgroundColor(image, bitsPerChannel) ==
    LET quantized == quantize(image, bitsPerChannel)
        keys == {quantized[i] : i \in 1..Len(quantized)}
    IN  findBackgroundLoop(quantized, 2, [v \in keys |-> 0], 1, quantized[1])

---------------------------------------------------------------------------
(* Foreground classifier *)

createForegroundMask(bg, smp, opt) ==
    LET hsvBg == rgbToHsv(bg)
    IN  [i \in 1..Len(smp) |->
            LET hsv == rgbToHsv(smp[i])
                sDiff == abs(FSub(hsvBg.s, hsv.s))
                vDiff == abs(FSub(hsvBg.v, hsv.v))
            IN  FGe(vDiff, opt.BrightnessThreshold)
                \/ FGe(sDiff, opt.SaturationThreshold)]

---------------------------------------------------------------------------
(* k-means *)

\* The loop of closest from index i (1-based) on; idx is the code's 0-based index.
RECURSIVE closestLoop(_, _, _, _, _)
closestLoop(p, ms, i, idx, minimum) ==
    IF i > Len(ms) THEN idx
    ELSE LET squaredDistance == squareDistance(p, ms[i])
         IN  IF FLt(squaredDistance, minimum)
             THEN closestLoop(p, ms, i + 1, i - 1, squaredDistance)
             ELSE closestLoop(p, ms, i + 1, idx, minimum)

\* Defined for non-empty ms only: means[0] panics on an empty slice.
closest(p, ms) == closestLoop(p, ms, 2, 0, squareDistance(p, ms[1]))

\* kMeans lines 267-272: the initial centres.
kMeansSeed(k) ==
    [i \in 1..k |-> hsvToRgb(FDiv(Flt(i - 1), Flt(k - 1)), Flt(1), Flt(1))]

\* kMeans lines 274-277: the initial assignment.
kMeansAssign(dat, ms) == [i \in 1..Len(dat) |-> closest(dat[i], ms)]

\* kMeans lines 285-290: the sum of cluster c's points, in data order.
RECURSIVE kMeansSum(_, _, _, _, _)
kMeansSum(dat, cl, c, i, acc) ==
    IF i > Len(dat) THEN acc
    ELSE kMeansSum(dat, cl, c, i + 1,
                   IF cl[i] = c THEN add(acc, dat[i]) ELSE acc)

kMeansLen(cl, c) == Cardinality({i \in 1..Len(cl) : cl[i] = c})

\* kMeansUpdate without the guard on an empty cluster's count: its centre is
\* 0 * (1/0), a NaN, instead of the zero vector.
kMeansUpdateNoGuard(dat, cl, k) ==
    [c \in 1..k |->
        mul(kMeansSum(dat, cl, c - 1, 1, RGB(0, 0, 0)),
            FDiv(Flt(1), Flt(kMeansLen(cl, c - 1))))]

\* kMeans lines 281-298: the centres recomputed from the assignment; an empty
\* cluster's count is taken as 1, which leaves its centre at the zero vector.
kMeansUpdate(dat, cl, k) ==
    [c \in 1..k |->
        LET count == IF kMeansLen(cl, c - 1) <= 0 THEN 1 ELSE kMeansLen(cl, c - 1)
        IN  mul(kMeansSum(dat, cl, c - 1, 1, RGB(0, 0, 0)), FDiv(Flt(1), Flt(count)))]

\* kMeans lines 299-305: the number of points whose nearest centre changed.
kMeansChanges(dat, cl, ms) ==
    Cardinality({i \in 1..Len(dat) : closest(dat[i], ms) # cl[i]})

---------------------------------------------------------------------------
(* Palette builder and post-processor *)

\* createPalette lines 177-187: the samples the mask marks foreground.
foregroundData(smp, fgMask) ==
    LET F[i \in 0..Len(smp)] ==
            IF i = 0 THEN <<>>
            ELSE IF fgMask[i] THEN Append(F[i - 1], smp[i]) ELSE F[i - 1]
    IN  F[Len(smp)]

\* paletteOf leaving out the centres of clusters without members (the zero
\* vector): the degenerate centres are missing from the palette.
paletteOfNonEmpty(bg, ms) ==
    <<bg>> \o SelectSeq([i \in 1..Len(ms) |-> [j \in 1..3 |-> round(ms[i][j])]],
                        LAMBDA c : c # RGB(0, 0, 0))

\* createPalette lines 189-198: the background, then the rounded centres.
paletteOf(bg, ms) ==
    <<bg>> \o [i \in 1..Len(ms) |-> [j \in 1..3 |-> round(ms[i][j])]]

RECURSIVE satMax(_, _, _)
satMax(pal, i, acc) ==
    IF i > Len(pal) THEN acc ELSE satMax(pal, i + 1, max(acc, rgbToHsv(pal[i]).s))

RECURSIVE satMin(_, _, _)
satMin(pal, i, acc) ==
    IF i > Len(pal) THEN acc ELSE satMin(pal, i + 1, min(acc, rgbToHsv(pal[i]).s))

saturatePalette(pal) ==
    LET maxSat == satMax(pal, 1, Flt(0))
        minSat == satMin(pal, 1, Flt(1))
    IN  [i \in 1..Len(pal) |->
            LET hsv == rgbToHsv(pal[i])
                newSat == FDiv(FSub(hsv.s, minSat), FSub(maxSat, minSat))
            IN  hsvToRgb(hsv.h, newSat, hsv.v)]

---------------------------------------------------------------------------
(* Pixel remapper *)

\* applyPalette without the index-0 rule: a foreground pixel nearest to the
\* background slot gets the raw palette[0].
applyPaletteRawBackground(image, pal, origBg, bg, opt) ==
    LET fgMask == createForegroundMask(origBg, image, opt)
    IN  [i \in 1..Len(image) |->
            IF ~fgMask[i] THEN bg ELSE pal[closest(image[i], pal) + 1]]

\* Defined for a non-empty palette only (closest).
applyPalette(image, pal, origBg, bg, opt) ==
    LET fgMask == createForegroundMask(origBg, image, opt)
    IN  [i \in 1..Len(image) |->
            IF ~fgMask[i] THEN bg
            ELSE LET minidx == closest(image[i], pal)
                 IN  IF minidx = 0 THEN bg ELSE pal[minidx + 1]]

---------------------------------------------------------------------------
(* Pixel sampler *)

\* The smallest power of two q with n \div q < 2^24.
RECURSIVE significandShift(_, _)
significandShift(n, q) ==
    IF n \div q < 2 ^ 24 THEN q ELSE significandShift(n, 2 * q)

\* A float32 product: the exact value a (a rational whose denominator is a power
\* of two) rounded to a 24-bit significand, to nearest and ties to even.
roundFloat32(a) ==
    IF ~IsFinite(a) \/ Abs(a.n) < 2 ^ 24 THEN a
    ELSE LET q == significandShift(Abs(a.n), 1)
             m == Abs(a.n) \div q
             r == Abs(a.n) % q
             up == 2 * r > q \/ (2 * r = q /\ m % 2 = 1)
         IN  Rat(Sign(a) * (IF up THEN m + 1 ELSE m) * q, a.d)

\* samplePixels line 203: int(float32(numPixels) * option.SampleFraction).
numSamplesOf(numPixels, sampleFraction) ==
    FInt(roundFloat32(FMul(Flt(numPixels), sampleFraction)))

\* A sampler that draws with replacement: every entry is the same pixel.
shuffleWithRepeats(image, perm) == [i \in 1..Len(image) |-> image[perm[1]]]

\* samplePixels lines 204-210: the copy, permuted by rand.Shuffle's swaps.
shuffleOf(image, perm) == [i \in 1..Len(image) |-> image[perm[i]]]

\* samplePixels lines 211-215: the first numSamples entries of shuffled; reading
\* past its end panics, which the action checks before it takes the prefix.
prefixOf(shuf, numSamples) == [i \in 1..numSamples |-> shuf[i]]

---------------------------------------------------------------------------
(* load and the output image *)

InBounds(min0, dx, dy, x, y) ==
    /\ min0[1] <= x /\ x < min0[1] + dx
    /\ min0[2] <= y /\ y < min0[2] + dy

\* img.At(x, y).RGBA(): 16-bit channels of an opaque 8-bit pixel, and zeros for
\* a point outside the image's bounds.
colorRGBA(im, x, y) ==
    IF InBounds(im.min, im.dx, im.dy, x, y)
    THEN [j \in 1..3 |-> im.pix[<<x, y>>][j] * 257]
    ELSE <<0, 0, 0>>

\* load: rows y = 0..Dy-1, columns x = 0..Dx-1, each channel float32(uint8(c)).
load(im) ==
    [idx \in 1..(im.dx * im.dy) |->
        LET x == (idx - 1) % im.dx
            y == (idx - 1) \div im.dx
        IN  [j \in 1..3 |-> Flt(colorRGBA(im, x, y)[j] % 256)]]

\* image.NewRGBA(rect): every pixel of the rectangle zero (transparent black).
newRGBA(r) ==
    [p \in {<<x, y>> \in (r.min[1]..(r.min[1] + r.dx - 1))
                          \X (r.min[2]..(r.min[2] + r.dy - 1)) : TRUE}
        |-> <<0, 0, 0, 0>>]

\* Shrink lines 39-49: SetRGBA(x, y, ...) for x in 0..Dx-1, y in 0..Dy-1, which
\* sets nothing for a point outside the rectangle.
setAll(r, res) ==
    [p \in DOMAIN newRGBA(r) |->
        IF 0 <= p[1] /\ p[1] < r.dx /\ 0 <= p[2] /\ p[2] < r.dy
        THEN LET c == res[p[2] * r.dx + p[1] + 1]
             IN  <<FUint8(c[1]), FUint8(c[2]), FUint8(c[3]), 255>>
        ELSE newRGBA(r)[p]]

---------------------------------------------------------------------------
(* The stages of Shrink, one action each *)

\* Shrink lines 24-27: a nil option becomes the default, then load(input).
ShrinkLoad ==
    /\ pc = "Shrink"
    /\ option' = IF option = NilOption THEN MakeDefaultOption ELSE option
    /\ img' = load(input)
    /\ rect' = [min |-> input.min, dx |-> input.dx, dy |-> input.dy]
    /\ pc' = "samplePixels"
    /\ UNCHANGED <<nanInt, input, shuffled, samples, origBgColor, data, means,
                   clusters, itr, changes, palette, bgColor, result, shrinked>>

\* Shrink line 28, samplePixels: rand.Shuffle yields any permutation of the
\* copy; shuffled[i] with i >= len(shuffled) panics.
SamplePixels ==
    /\ pc = "samplePixels"
    /\ \E perm \in Permutations(1..Len(img)) :
         LET numSamples == numSamplesOf(Len(img), option.SampleFraction)
         IN  /\ shuffled' = shuffleOf(img, perm)
             /\ IF numSamples > Len(img)
                THEN /\ pc' = "panic"
                     /\ samples' = samples
                ELSE /\ pc' = "findBackgroundColor"
                     /\ samples' = prefixOf(shuffled', numSamples)
    /\ UNCHANGED <<nanInt, input, option, img, rect, origBgColor, data, means,
                   clusters, itr, changes, palette, bgColor, result, shrinked>>

\* createPalette line 175: quantized[0] panics when there is no sample.
FindBackgroundColor ==
    /\ pc = "findBackgroundColor"
    /\ IF Len(samples) = 0
       THEN /\ pc' = "panic"
            /\ origBgColor' = origBgColor
       ELSE /\ pc' = "createForegroundMask"
            /\ origBgColor' = findBackgroundColor(samples, 6)
    /\ UNCHANGED <<nanInt, input, option, img, rect, shuffled, samples, data, means,
                   clusters, itr, changes, palette, bgColor, result, shrinked>>

\* createPalette lines 176-187.
ForegroundData ==
    /\ pc = "createForegroundMask"
    /\ data' = foregroundData(samples, createForegroundMask(origBgColor, samples, option))
    /\ pc' = "kMeans"
    /\ UNCHANGED <<nanInt, input, option, img, rect, shuffled, samples, origBgColor,
                   means, clusters, itr, changes, palette, bgColor, result, shrinked>>

\* kMeans lines 267-279 with k = NumColors-1: the seeds and the first
\* assignment; closest panics on means[0] when there is data and no centre.
KMeansSeed ==
    /\ pc = "kMeans"
    /\ means' = kMeansSeed(option.NumColors - 1)
    /\ IF Len(data) > 0 /\ Len(means') = 0
       THEN /\ pc' = "panic"
            /\ clusters' = clusters
       ELSE /\ pc' = "kMeansLoop"
            /\ clusters' = kMeansAssign(data, means')
    /\ itr' = 0
    /\ changes' = -1
    /\ UNCHANGED <<nanInt, input, option, img, rect, shuffled, samples, origBgColor,
                   data, palette, bgColor, result, shrinked>>

\* kMeans lines 280-309: one iteration of the loop (update, then reassignment);
\* the loop is left by break when no membership changed.
KMeansIterate ==
    /\ pc = "kMeansLoop"
    /\ itr < option.KmeansMaxIter
    /\ changes # 0
    /\ means' = kMeansUpdate(data, clusters, Len(means))
    /\ changes' = kMeansChanges(data, clusters, means')
    /\ clusters' = kMeansAssign(data, means')
    /\ itr' = IF changes' = 0 THEN itr ELSE itr + 1
    /\ UNCHANGED <<pc, nanInt, input, option, img, rect, shuffled, samples,
                   origBgColor, data, palette, bgColor, result, shrinked>>

\* kMeans line 310 and createPalette lines 189-198.
CreatePaletteReturn ==
    /\ pc = "kMeansLoop"
    /\ (itr >= option.KmeansMaxIter \/ changes = 0)
    /\ palette' = paletteOf(origBgColor, means)
    /\ pc' = "saturatePalette"
    /\ UNCHANGED <<nanInt, input, option, img, rect, shuffled, samples, origBgColor,
                   data, means, clusters, itr, changes, bgColor, result, shrinked>>

\* Shrink lines 31-33.
SaturatePalette ==
    /\ pc = "saturatePalette"
    /\ palette' = IF option.Saturate THEN saturatePalette(palette) ELSE palette
    /\ pc' = "bgColor"
    /\ UNCHANGED <<nanInt, input, option, img, rect, shuffled, samples, origBgColor,
                   data, means, clusters, itr, changes, bgColor, result, shrinked>>

\* Shrink lines 30 and 34-36.
SetBgColor ==
    /\ pc = "bgColor"
    /\ bgColor' = IF option.WhiteBackground THEN RGB(255, 255, 255) ELSE origBgColor
    /\ pc' = "applyPalette"
    /\ UNCHANGED <<nanInt, input, option, img, rect, shuffled, samples, origBgColor,
                   data, means, clusters, itr, changes, palette, result, shrinked>>

\* Shrink line 37.
ApplyPalette ==
    /\ pc = "applyPalette"
    /\ result' = applyPalette(img, palette, origBgColor, bgColor, option)
    /\ pc' = "NewRGBA"
    /\ UNCHANGED <<nanInt, input, option, img, rect, shuffled, samples, origBgColor,
                   data, means, clusters, itr, changes, palette, bgColor, shrinked>>

\* Shrink lines 38-50.
WriteShrinked ==
    /\ pc = "NewRGBA"
    /\ shrinked' = setAll(rect, result)
    /\ pc' = "return"
    /\ UNCHANGED <<nanInt, input, option, img, rect, shuffled, samples, origBgColor,
                   data, means, clusters, itr, changes, palette, bgColor, result>>

---------------------------------------------------------------------------
(* Inputs *)

\* int(NaN) is implementation-dependent: amd64 yields the smallest int64, arm64
\* yields 0.  MinInt stands for the smallest int64.
MinInt == -2147483647
NaNInts == {MinInt, 0}

\* 8-bit pixels of the input image: paper and ink, as in the spec's example.
Paper == <<250, 250, 248>>
Ink == <<10, 10, 10>>

\* Values of the variables a specification does not use.
NoImage == [min |-> <<0, 0>>, dx |-> 0, dy |-> 0, pix |-> <<>>]
NoRect == [min |-> <<0, 0>>, dx |-> 0, dy |-> 0]

OptionOf(sampleFraction, numColors, kmeansMaxIter, saturate, whiteBackground) ==
    [MakeDefaultOption EXCEPT !.SampleFraction = sampleFraction,
                              !.NumColors = numColors,
                              !.KmeansMaxIter = kmeansMaxIter,
                              !.Saturate = saturate,
                              !.WhiteBackground = whiteBackground]

Positions(min0, dx, dy) ==
    (min0[1]..(min0[1] + dx - 1)) \X (min0[2]..(min0[2] + dy - 1))

---------------------------------------------------------------------------
(* Shrink from its entry: images of up to MaxDx x MaxDy pixels, with bounds at *)
(* the origin or moved off it, and valid and invalid options                 *)

MaxDx == 2
MaxDy == 2
MaxMinX == 1

ShrinkOptions ==
    {NilOption} \cup
    {OptionOf(f, n, 40, s, w) :
        f \in {Flt(0), SampleFractionDefault, Flt(1)}, n \in 1..3,
        s \in BOOLEAN, w \in BOOLEAN}

ShrinkImages ==
    UNION {{[min |-> <<mx, 0>>, dx |-> dx, dy |-> dy, pix |-> pix] :
               pix \in [Positions(<<mx, 0>>, dx, dy) -> {Paper, Ink}]} :
           <<mx, dx, dy>> \in (0..MaxMinX) \X (0..MaxDx) \X (1..MaxDy)}

InitShrink ==
    /\ pc = "Shrink"
    /\ nanInt \in NaNInts
    /\ input \in ShrinkImages
    /\ option \in ShrinkOptions
    /\ img = <<>>
    /\ rect = NoRect
    /\ shuffled = <<>>
    /\ samples = <<>>
    /\ origBgColor = RGB(0, 0, 0)
    /\ data = <<>>
    /\ means = <<>>
    /\ clusters = <<>>
    /\ itr = 0
    /\ changes = -1
    /\ palette = <<>>
    /\ bgColor = RGB(0, 0, 0)
    /\ result = <<>>
    /\ shrinked = <<>>

NextShrink ==
    \/ ShrinkLoad
    \/ SamplePixels
    \/ FindBackgroundColor
    \/ ForegroundData
    \/ KMeansSeed
    \/ KMeansIterate
    \/ CreatePaletteReturn
    \/ SaturatePalette
    \/ SetBgColor
    \/ ApplyPalette
    \/ WriteShrinked

SpecShrink == InitShrink /\ [][NextShrink]_vars

---------------------------------------------------------------------------
(* findBackgroundColor on sample sequences of up to MaxBgSamples colours; two *)
(* of the colours fall into one 6-bit quantization bin                        *)

MaxBgSamples == 5

BgColors == {RGB(250, 250, 248), RGB(251, 249, 250), RGB(10, 10, 10)}

SeqsOf(S, lo, hi) == UNION {[1..n -> S] : n \in lo..hi}

InitBackground ==
    /\ pc = "findBackgroundColor"
    /\ nanInt \in NaNInts
    /\ input = NoImage
    /\ option = MakeDefaultOption
    /\ img = <<>>
    /\ rect = NoRect
    /\ shuffled = <<>>
    /\ samples \in SeqsOf(BgColors, 1, MaxBgSamples)
    /\ origBgColor = RGB(0, 0, 0)
    /\ data = <<>>
    /\ means = <<>>
    /\ clusters = <<>>
    /\ itr = 0
    /\ changes = -1
    /\ palette = <<>>
    /\ bgColor = RGB(0, 0, 0)
    /\ result = <<>>
    /\ shrinked = <<>>

NextBackground == FindBackgroundColor

SpecBackground == InitBackground /\ [][NextBackground]_vars

---------------------------------------------------------------------------
(* createPalette and saturatePalette on sample sets of up to MaxSamples      *)
(* colours, for NumColors in 2..MaxColors and KmeansMaxIter in 0..MaxIter   *)

MaxSamples == 3
MaxColors == 4
MaxIter == 2

SampleColors ==
    {RGB(250, 250, 248), RGB(10, 10, 10), RGB(30, 30, 30), RGB(100, 100, 100)}

InitPalette ==
    /\ pc = "findBackgroundColor"
    /\ nanInt \in NaNInts
    /\ input = NoImage
    /\ option \in {OptionOf(Flt(1), n, m, TRUE, TRUE) :
                      n \in 2..MaxColors, m \in 0..MaxIter}
    /\ img = <<>>
    /\ rect = NoRect
    /\ shuffled = <<>>
    /\ samples \in SeqsOf(SampleColors, 1, MaxSamples)
    /\ origBgColor = RGB(0, 0, 0)
    /\ data = <<>>
    /\ means = <<>>
    /\ clusters = <<>>
    /\ itr = 0
    /\ changes = -1
    /\ palette = <<>>
    /\ bgColor = RGB(0, 0, 0)
    /\ result = <<>>
    /\ shrinked = <<>>

NextPalette ==
    \/ FindBackgroundColor
    \/ ForegroundData
    \/ KMeansSeed
    \/ KMeansIterate
    \/ CreatePaletteReturn
    \/ SaturatePalette

SpecPalette == InitPalette /\ [][NextPalette]_vars

---------------------------------------------------------------------------
(* saturatePalette on palettes of up to MaxSatPalette colours of saturation  *)
(* 0, 1/2 and 1                                                              *)

MaxSatPalette == 3

SatColors ==
    {RGB(255, 0, 0), RGB(0, 255, 0), RGB(200, 100, 100), RGB(10, 10, 10),
     RGB(250, 250, 250)}

InitSaturate ==
    /\ pc = "saturatePalette"
    /\ nanInt \in NaNInts
    /\ input = NoImage
    /\ option = MakeDefaultOption
    /\ img = <<>>
    /\ rect = NoRect
    /\ shuffled = <<>>
    /\ samples = <<>>
    /\ origBgColor = RGB(0, 0, 0)
    /\ data = <<>>
    /\ means = <<>>
    /\ clusters = <<>>
    /\ itr = 0
    /\ changes = -1
    /\ palette \in SeqsOf(SatColors, 1, MaxSatPalette)
    /\ bgColor = RGB(0, 0, 0)
    /\ result = <<>>
    /\ shrinked = <<>>

NextSaturate == SaturatePalette

SpecSaturate == InitSaturate /\ [][NextSaturate]_vars

---------------------------------------------------------------------------
(* Shrink lines 30-37 on images of up to MaxImg pixels and palettes of 2 to  *)
(* MaxApplyPalette colours                                                   *)

MaxImg == 2
MaxApplyPalette == 3

ApplyColors == {RGB(250, 250, 248), RGB(10, 10, 10), RGB(200, 30, 30)}

ApplyPaletteColors == {RGB(250, 250, 250), RGB(16, 12, 8), RGB(255, 0, 0)}

InitApply ==
    /\ pc = "bgColor"
    /\ nanInt \in {0}
    /\ input = NoImage
    /\ option \in {OptionOf(Flt(1), 8, 40, TRUE, w) : w \in BOOLEAN}
    /\ img \in SeqsOf(ApplyColors, 1, MaxImg)
    /\ rect = NoRect
    /\ shuffled = <<>>
    /\ samples = <<>>
    /\ origBgColor \in {RGB(250, 250, 250), RGB(10, 10, 10)}
    /\ data = <<>>
    /\ means = <<>>
    /\ clusters = <<>>
    /\ itr = 0
    /\ changes = -1
    /\ palette \in SeqsOf(ApplyPaletteColors, 2, MaxApplyPalette)
    /\ bgColor = RGB(0, 0, 0)
    /\ result = <<>>
    /\ shrinked = <<>>

NextApply ==
    \/ SetBgColor
    \/ ApplyPalette

SpecApply == InitApply /\ [][NextApply]_vars

---------------------------------------------------------------------------
(* load and samplePixels on one-row images of up to MaxPixels pixels of      *)
(* pairwise different colours                                                *)

MaxPixels == 6

\* float32 values of SampleFraction: 0.05, 0.5, 5/6 and 1.
SampleFractions ==
    {SampleFractionDefault, Rat(1, 2), Rat(13981013, 16777216), Flt(1)}

RowImage(n) ==
    [min |-> <<0, 0>>, dx |-> n, dy |-> 1,
     pix |-> [p \in Positions(<<0, 0>>, n, 1) |-> <<p[1] + 1, 0, 0>>]]

InitSample ==
    /\ pc = "Shrink"
    /\ nanInt \in {0}
    /\ input \in {RowImage(n) : n \in 0..MaxPixels}
    /\ option \in {OptionOf(f, 8, 40, TRUE, TRUE) : f \in SampleFractions}
    /\ img = <<>>
    /\ rect = NoRect
    /\ shuffled = <<>>
    /\ samples = <<>>
    /\ origBgColor = RGB(0, 0, 0)
    /\ data = <<>>
    /\ means = <<>>
    /\ clusters = <<>>
    /\ itr = 0
    /\ changes = -1
    /\ palette = <<>>
    /\ bgColor = RGB(0, 0, 0)
    /\ result = <<>>
    /\ shrinked = <<>>

NextSample ==
    \/ ShrinkLoad
    \/ SamplePixels

SpecSample == InitSample /\ [][NextSample]_vars

---------------------------------------------------------------------------
(* Shrink as a whole *)

\* The option Shrink works with: the default one for a nil pointer.
OptionValue == IF option = NilOption THEN MakeDefaultOption ELSE option

\* A valid call: a non-empty image, NumColors >= 2 and 0 < SampleFraction <= 1.
ValidCall ==
    /\ input.dx * input.dy >= 1
    /\ OptionValue.NumColors >= 2
    /\ FGt(OptionValue.SampleFraction, Flt(0))
    /\ ~FGt(OptionValue.SampleFraction, Flt(1))

PipelineStages ==
    {"samplePixels", "findBackgroundColor", "createForegroundMask", "kMeans",
     "kMeansLoop", "saturatePalette", "bgColor", "applyPalette"}

\* C2: on a valid call (a non-empty image, NumColors >= 2, 0 < SampleFraction
\* <= 1) Shrink never fails at run time: no stage indexes out of range, also
\* when floor(pixels x SampleFraction) is 0 and the sample set is empty.
C2_ShrinkNeverFails == ValidCall => pc # "panic"

\* C3: an invalid configuration or input (NumColors < 2, SampleFraction <= 0 or
\* an image with zero pixels) is rejected before any pipeline stage is entered:
\* no stage is ever entered, and none fails, with such an input.
C3_InvalidRejected == ~ValidCall => pc \notin PipelineStages \cup {"panic"}

\* The index in load's row-major buffer of the pixel at position p of the bounds.
IndexOf(p) == (p[2] - input.min[2]) * input.dx + (p[1] - input.min[1]) + 1

\* C7: whatever the bounds of the input (a top-left corner other than (0,0)
\* included), the returned image has the same bounds, load has read each input
\* pixel at its own position, and every position inside the bounds is written:
\* opaque, with the colour the remapper produced for the input pixel there.
C7_SameBoundsAllWritten ==
    (ValidCall /\ pc = "return") =>
        /\ DOMAIN shrinked = Positions(input.min, input.dx, input.dy)
        /\ \A p \in Positions(input.min, input.dx, input.dy) :
              /\ img[IndexOf(p)] = [j \in 1..3 |-> Flt(input.pix[p][j])]
              /\ shrinked[p] = <<FUint8(result[IndexOf(p)][1]),
                                 FUint8(result[IndexOf(p)][2]),
                                 FUint8(result[IndexOf(p)][3]), 255>>

---------------------------------------------------------------------------
(* Background detection *)

\* The number of occurrences of c in the sequence q, and its first index.
Occurrences(q, c) == Cardinality({i \in 1..Len(q) : q[i] = c})
FirstIndex(q, c) == CHOOSE i \in 1..Len(q) : q[i] = c /\ \A j \in 1..(i - 1) : q[j] # c

\* The most frequent element of q, the earliest-occurring one among equals.
ModeOf(q) ==
    CHOOSE c \in {q[i] : i \in 1..Len(q)} :
        \A e \in {q[i] : i \in 1..Len(q)} :
            \/ Occurrences(q, c) > Occurrences(q, e)
            \/ Occurrences(q, c) = Occurrences(q, e) /\ FirstIndex(q, c) <= FirstIndex(q, e)

\* C1: for a non-empty sample sequence findBackgroundColor(samples, 6) returns
\* the quantized colour with the most occurrences among all quantized samples,
\* the first one included, and among colours of equal count the one that occurs
\* first; so a quantized colour that makes up more than half of the samples is
\* the one returned.
C1_BackgroundIsMode ==
    (pc = "createForegroundMask" /\ Len(samples) > 0) =>
        origBgColor = ModeOf(quantize(samples, 6))

---------------------------------------------------------------------------
(* Saturation stretch *)

SameSaturation(pal) ==
    \A i, j \in 1..Len(pal) : rgbToHsv(pal[i]).s = rgbToHsv(pal[j]).s

\* C4: when every entry of the palette handed to saturatePalette has the same
\* saturation (0 or greater), the stretch is skipped: the palette comes back
\* with the same hue, saturation and value in every entry.
C4_DegenerateStretchSkipped ==
    [][(pc = "saturatePalette" /\ option.Saturate /\ SameSaturation(palette)) =>
          /\ Len(palette') = Len(palette)
          /\ \A i \in 1..Len(palette) : rgbToHsv(palette'[i]) = rgbToHsv(palette[i])]_vars

---------------------------------------------------------------------------
(* Pixel remapping *)

\* The classification rule of 4.4: a brightness or a saturation deviation from
\* the reference colour of at least the threshold.
IsForeground(p, ref, opt) ==
    \/ FGe(abs(FSub(rgbToHsv(p).v, rgbToHsv(ref).v)), opt.BrightnessThreshold)
    \/ FGe(abs(FSub(rgbToHsv(p).s, rgbToHsv(ref).s)), opt.SaturationThreshold)

\* The 0-based index of the entry of ms nearest to p by squared RGB distance,
\* the lowest such index when several are equally near.
NearestIndex(p, ms) ==
    CHOOSE k \in 0..(Len(ms) - 1) :
        /\ \A j \in 0..(Len(ms) - 1) :
              ~FLt(squareDistance(p, ms[j + 1]), squareDistance(p, ms[k + 1]))
        /\ \A j \in 0..(k - 1) :
              FGt(squareDistance(p, ms[j + 1]), squareDistance(p, ms[k + 1]))

\* C5: applyPalette emits, for every pixel of the image, bgColor when the pixel
\* is background against origBgColor, bgColor when it is foreground and its
\* nearest palette entry is index 0, and that nearest entry otherwise; so every
\* output is bgColor or one of palette[1..N-1], the classification does not
\* read bgColor, and with WhiteBackground every background pixel is
\* (255,255,255).
C5_RemapRule ==
    pc = "NewRGBA" =>
        /\ Len(result) = Len(img)
        /\ \A i \in 1..Len(img) :
              /\ result[i] =
                    IF ~IsForeground(img[i], origBgColor, option) THEN bgColor
                    ELSE IF NearestIndex(img[i], palette) = 0 THEN bgColor
                    ELSE palette[NearestIndex(img[i], palette) + 1]
              /\ result[i] \in {bgColor} \cup {palette[j] : j \in 2..Len(palette)}
              /\ (option.WhiteBackground /\ ~IsForeground(img[i], origBgColor, option))
                    => result[i] = RGB(255, 255, 255)

\* C5's case: with a white rendered background that differs from palette[0], one
\* foreground pixel whose nearest entry is index 0 and one that is remapped to
\* another entry.
C5_Witness ==
    /\ pc = "NewRGBA"
    /\ option.WhiteBackground
    /\ palette[1] # bgColor
    /\ \E i \in 1..Len(img) :
          /\ IsForeground(img[i], origBgColor, option)
          /\ NearestIndex(img[i], palette) = 0
          /\ result[i] = bgColor
    /\ \E i \in 1..Len(img) :
          /\ IsForeground(img[i], origBgColor, option)
          /\ NearestIndex(img[i], palette) > 0

---------------------------------------------------------------------------
(* Palette building *)

\* c is v rounded to the nearest integer, halves up (v finite and not negative).
IsRounded(c, v) ==
    /\ c.d = 1
    /\ 2 * c.n * v.d <= 2 * v.n + v.d
    /\ 2 * v.n + v.d < 2 * (c.n + 1) * v.d

\* C6: createPalette returns exactly NumColors entries: the detected background
\* colour, then the NumColors-1 k-means centres, rounded, in seeding order,
\* also when no sample is foreground; saturatePalette keeps the length.
C6_PaletteLength ==
    /\ pc = "saturatePalette" =>
          /\ Len(palette) = option.NumColors
          /\ palette[1] = origBgColor
          /\ Len(means) = option.NumColors - 1
          /\ \A i \in 1..Len(means) : \A j \in 1..3 :
                IF IsFinite(means[i][j])
                THEN IsRounded(palette[i + 1][j], means[i][j])
                ELSE palette[i + 1][j] = Flt(nanInt)
    /\ pc = "bgColor" => Len(palette) = option.NumColors

\* C6's case: no sample is foreground and the palette still has its 3 or more
\* entries, before and after the saturation stretch.
C6_Witness ==
    /\ pc = "bgColor"
    /\ Len(samples) > 0
    /\ Len(data) = 0
    /\ option.NumColors >= 3
    /\ Len(palette) = option.NumColors

\* The members of cluster c (0-based) and the sum of their channel j.
Members(c) == {i \in 1..Len(data) : clusters[i] = c}

RECURSIVE ChannelSum(_, _)
ChannelSum(S, j) ==
    IF S = {} THEN Flt(0)
    ELSE LET i == CHOOSE x \in S : TRUE
         IN  FAdd(data[i][j], ChannelSum(S \ {i}, j))

\* C9: when the k-means loop is left because an iteration changed no
\* membership, every centre is the mean of its members (the zero vector for a
\* cluster without members), every point is assigned to its nearest centre
\* (the lowest index among equals), and one more update and assignment changes
\* no centre and no membership.
C9_ConvergedFixedPoint ==
    (pc = "kMeansLoop" /\ changes = 0) =>
        /\ \A c \in 1..Len(means) : \A j \in 1..3 :
              IF Members(c - 1) = {} THEN means[c][j] = Flt(0)
              ELSE FMul(means[c][j], Flt(Cardinality(Members(c - 1))))
                      = ChannelSum(Members(c - 1), j)
        /\ \A i \in 1..Len(data) : clusters[i] = NearestIndex(data[i], means)
        /\ kMeansUpdate(data, clusters, Len(means)) = means
        /\ kMeansAssign(data, means) = clusters
        /\ kMeansChanges(data, clusters, means) = 0

\* C9's case: convergence after an iteration that changed a membership, with
\* two points or more and a cluster without members.
C9_Witness ==
    /\ pc = "kMeansLoop"
    /\ changes = 0
    /\ itr >= 1
    /\ Len(data) >= 2
    /\ \E c \in 1..Len(means) : Members(c - 1) = {}

ChannelMax(c) == max(max(c[1], c[2]), c[3])
ChannelMin(c) == min(min(c[1], c[2]), c[3])

\* C10: every initial centre of kMeans lies on the full-saturation, full-value
\* hue wheel: its largest channel is 255 and its smallest is 0 (never a grey or
\* white), the last seed (hue 1) included.
C10_SeedsOnHueWheel ==
    (pc = "kMeansLoop" /\ changes = -1 /\ option.NumColors >= 3) =>
        \A i \in 1..Len(means) :
            /\ ChannelMax(means[i]) = Flt(255)
            /\ ChannelMin(means[i]) = Flt(0)

---------------------------------------------------------------------------
(* Pixel sampling *)

SubMultiset(a, b) ==
    \A c \in {a[i] : i \in 1..Len(a)} : Occurrences(a, c) <= Occurrences(b, c)

\* floor(N x f) and whether the product N x f is a float32 (24 bits suffice).
ExactProduct == FMul(Flt(Len(img)), option.SampleFraction)
FloorProduct == ExactProduct.n \div ExactProduct.d
ProductIsFloat32 == ExactProduct.n < 2 ^ 24

=============================================================================
